---- MODULE Spec2Model ----
(***************************************************************************)
(* Greedy vaccination-centre placement (src/pbl.py).                       *)
(*                                                                         *)
(* The model follows the "Compute Centers" handler: the population list is *)
(* checked against the number of locations, the chain graph is built,      *)
(* greedy_center_placement runs its while loop, the per-centre coverage    *)
(* is recomputed for the report, and the statistics are computed.          *)
(* greedy_center_placement and covered_nodes take the graph as a           *)
(* parameter, so they are also exercised on graphs other than the chain.   *)
(***************************************************************************)
EXTENDS Integers, Sequences, FiniteSets

VARIABLES
    num_locations,        \* sidebar "Number of Locations"
    population_list,      \* the parsed population values
    X,                    \* coverage distance
    G,                    \* the graph: nodes (insertion order), edges, population
    pc,                   \* position in the handler
    uncovered,            \* greedy_center_placement: local set
    centers,              \* greedy_center_placement: local list, then the result
    ci,                   \* number of centres already reported (for c in centers)
    center_coverage_map,  \* centre -> sorted list of the nodes it reaches
    all_covered,          \* union of the centres' reach sets
    uncovered_final,      \* line 126: set(G.nodes()) - all_covered
    total_population,
    covered_population,
    coverage_percent,     \* <<numerator, denominator>> of the percentage
    outcome               \* what the handler shows to the user

vars == <<num_locations, population_list, X, G, pc, uncovered, centers, ci,
          center_coverage_map, all_covered, uncovered_final, total_population,
          covered_population, coverage_percent, outcome>>

----------------------------------------------------------------------------
(* Bounds of the model *)

MaxN == 4          \* arbitrary graphs have at most MaxN nodes
MaxPathN == 9      \* relabelled paths have at most MaxPathN nodes
MaxChainN == 8     \* the handler is run on chains of at most MaxChainN nodes
MaxX == 3          \* largest radius tried outside the handler
IterCap == 2       \* a diverging while loop is followed for N + IterCap rounds

(* Program constants *)

MinLocations == 2         \* number_input(min_value=2)
SliderMin == 1            \* slider(min_value=1)
SliderMax == 5            \* slider(max_value=5)
DefaultPopulation == 10   \* the default text "10,10,..."
None == 0                 \* Python's None as best_node; node ids start at 1

PopValues == {0, DefaultPopulation}

----------------------------------------------------------------------------
(* Helpers over Python values *)

RECURSIVE SumSeq(_)
SumSeq(s) == IF Len(s) = 0 THEN 0 ELSE Head(s) + SumSeq(Tail(s))

Min(S) == CHOOSE m \in S : \A o \in S : m <= o

RECURSIVE sorted(_)
sorted(S) == IF S = {} THEN << >> ELSE <<Min(S)>> \o sorted(S \ {Min(S)})

Range(s) == {s[i] : i \in 1..Len(s)}

NodeSet(g) == Range(g.nodes)

Neighbors(g, u) == {v \in NodeSet(g) : {u, v} \in g.edges}

EmptyGraph == [nodes |-> << >>, edges |-> {}, population |-> << >>]

----------------------------------------------------------------------------
(* nx.single_source_shortest_path_length: breadth-first levels from source *)

RECURSIVE BFSLevels(_, _, _, _)
BFSLevels(g, frontier, level, dist) ==
    IF frontier = {} THEN dist
    ELSE LET seen == DOMAIN dist
             nextlevel == (UNION {Neighbors(g, u) : u \in frontier}) \ seen
         IN BFSLevels(g, nextlevel, level + 1,
                      [n \in seen \cup nextlevel |->
                          IF n \in seen THEN dist[n] ELSE level + 1])

single_source_shortest_path_length(g, source) ==
    BFSLevels(g, {source}, 0, [n \in {source} |-> 0])

(* variants of the test "dist <= X" of line 73 *)
WithinRadius_exact(dist, x) == dist = 0 \/ dist = x

WithinRadius_strict(dist, x) == dist < x

WithinRadius(dist, x) == dist <= x


covered_nodes(g, center, x) ==
    LET length == single_source_shortest_path_length(g, center)
    IN {node \in DOMAIN length : WithinRadius(length[node], x)}

----------------------------------------------------------------------------
(* greedy_center_placement *)

(* variant of the comparison of line 83: a later node of equal gain wins *)
Improves_ge(cover, best_cover) == Cardinality(cover) >= Cardinality(best_cover)

Improves(cover, best_cover) == Cardinality(cover) > Cardinality(best_cover)

(* the for loop of lines 81-84, from the i-th node on *)
RECURSIVE ScanFrom(_, _, _, _, _, _)
ScanFrom(g, x, unc, i, best_node, best_cover) ==
    IF i > Len(g.nodes) THEN <<best_node, best_cover>>
    ELSE LET node == g.nodes[i]
             cover == covered_nodes(g, node, x) \cap unc
         IN IF Improves(cover, best_cover)
            THEN ScanFrom(g, x, unc, i + 1, node, cover)
            ELSE ScanFrom(g, x, unc, i + 1, best_node, best_cover)

ScanBest(g, x, unc) == ScanFrom(g, x, unc, 1, None, {})

(* variants of line 86: too few, or too many, nodes leave uncovered *)
Remaining_one(unc, best_cover) ==
    IF best_cover = {} THEN unc ELSE unc \ {Min(best_cover)}

Remaining_wide(unc, best_cover) ==
    unc \ (best_cover \cup UNION {Neighbors(G, u) : u \in best_cover})

Remaining(unc, best_cover) == unc \ best_cover

RECURSIVE GreedyLoop(_, _, _, _)
GreedyLoop(g, x, unc, cs) ==
    IF unc = {} THEN cs
    ELSE LET best == ScanBest(g, x, unc)
         IN GreedyLoop(g, x, Remaining(unc, best[2]), Append(cs, best[1]))

(* the whole call; it does not return for x < 0 on a non-empty graph *)
greedy_center_placement(g, x) == GreedyLoop(g, x, NodeSet(g), << >>)

----------------------------------------------------------------------------
(* Graph construction *)

(* variant of line 112: the last edge is not added *)
ChainEdges_short(n) == {{i, i + 1} : i \in 1..(n - 2)}

ChainEdges(n) == {{i, i + 1} : i \in 1..(n - 1)}

BuildChain(n, pops) ==
    [nodes |-> [i \in 1..n |-> i],
     edges |-> ChainEdges(n),
     population |-> [i \in 1..n |-> pops[i]]]

----------------------------------------------------------------------------
(* Reporting and statistics *)

(* variant of line 122: only the nodes no earlier centre reached *)
nodes_covered_by_c_new(g, c, x) == covered_nodes(g, c, x) \ all_covered

nodes_covered_by_c(g, c, x) == covered_nodes(g, c, x)

RECURSIVE SumPopulation(_, _)
SumPopulation(g, S) ==
    IF S = {} THEN 0
    ELSE LET n == CHOOSE m \in S : TRUE
         IN g.population[n] + SumPopulation(g, S \ {n})

RECURSIVE SumPerCenter(_, _)
SumPerCenter(g, cs) ==
    IF Len(cs) = 0 THEN 0
    ELSE SumPopulation(g, Range(center_coverage_map[Head(cs)]))
         + SumPerCenter(g, Tail(cs))

(* variant of line 130: summed per centre, so shared nodes count twice *)
CoveredPopulation_percenter(g, covered) == SumPerCenter(g, centers)

CoveredPopulation(g, covered) == SumPopulation(g, covered)

(* (covered / total) * 100, kept as the exact fraction 100*covered / total; *)
(* the float result is 100.0 exactly when covered = total                  *)
Percent(covered, total) == <<100 * covered, total>>

NoPercent == << >>

----------------------------------------------------------------------------
(* Initial states *)

Locals ==
    /\ uncovered = {}
    /\ centers = << >>
    /\ ci = 0
    /\ center_coverage_map = << >>
    /\ all_covered = {}
    /\ uncovered_final = {}
    /\ total_population = 0
    /\ covered_population = 0
    /\ coverage_percent = NoPercent
    /\ outcome = "pending"

AllPairs(n) == {{i, j} : i, j \in 1..n} \ {{i} : i \in 1..n}

(* greedy_center_placement and the report on an arbitrary undirected graph *)
Init ==
    /\ num_locations \in 0..MaxN
    /\ \E p \in PopValues : population_list = [i \in 1..num_locations |-> p]
    /\ X \in -1..MaxX
    /\ \E es \in SUBSET AllPairs(num_locations) :
           G = [nodes |-> [i \in 1..num_locations |-> i],
                edges |-> es,
                population |-> population_list]
    /\ pc = "call"
    /\ Locals

(* the node order along a path: 1..n, or 1..n with two neighbours exchanged *)
Relabellings(n) ==
    {[i \in 1..n |-> i]} \cup
    {[i \in 1..n |-> IF i = k THEN k + 1 ELSE IF i = k + 1 THEN k ELSE i] :
        k \in 1..(n - 1)}

PathEdges(order) == {{order[i], order[i + 1]} : i \in 1..(Len(order) - 1)}

(* a path whose nodes were inserted 1..n but are threaded in another order *)
InitPath ==
    /\ num_locations \in 1..MaxPathN
    /\ population_list = [i \in 1..num_locations |-> DefaultPopulation]
    /\ X \in 0..MaxX
    /\ \E order \in Relabellings(num_locations) :
           G = [nodes |-> [i \in 1..num_locations |-> i],
                edges |-> PathEdges(order),
                population |-> population_list]
    /\ pc = "call"
    /\ Locals

(* the handler: the sidebar widgets give N >= 2 and 1 <= X <= 5 *)
InitApp ==
    /\ num_locations \in MinLocations..MaxChainN
    /\ population_list \in
           UNION {[1..k -> PopValues] : k \in {num_locations - 1, num_locations}}
    /\ X \in SliderMin..SliderMax
    /\ G = EmptyGraph
    /\ pc = "click"
    /\ Locals

----------------------------------------------------------------------------
(* Actions *)

(* lines 102-113: the count check, then the chain graph *)
ButtonClick ==
    /\ pc = "click"
    /\ IF Len(population_list) # num_locations
       THEN /\ outcome' = "count_error"
            /\ pc' = "done"
            /\ G' = G
       ELSE /\ G' = BuildChain(num_locations, population_list)
            /\ pc' = "call"
            /\ outcome' = outcome
    /\ UNCHANGED <<num_locations, population_list, X, uncovered, centers, ci,
                   center_coverage_map, all_covered, uncovered_final,
                   total_population, covered_population, coverage_percent>>

(* lines 77-78 *)
GreedyEnter ==
    /\ pc = "call"
    /\ uncovered' = NodeSet(G)
    /\ centers' = << >>
    /\ pc' = "while"
    /\ UNCHANGED <<num_locations, population_list, X, G, ci,
                   center_coverage_map, all_covered, uncovered_final,
                   total_population, covered_population, coverage_percent,
                   outcome>>

(* lines 79-86: one round of the while loop *)
LoopIteration ==
    /\ pc = "while"
    /\ uncovered # {}
    /\ Len(centers) < num_locations + IterCap
    /\ LET best == ScanBest(G, X, uncovered)
       IN /\ centers' = Append(centers, best[1])
          /\ uncovered' = Remaining(uncovered, best[2])
    /\ UNCHANGED <<num_locations, population_list, X, G, pc, ci,
                   center_coverage_map, all_covered, uncovered_final,
                   total_population, covered_population, coverage_percent,
                   outcome>>

(* lines 79, 87, 116, 119-120: the loop ends and the centres are returned *)
LoopExit ==
    /\ pc = "while"
    /\ uncovered = {}
    /\ center_coverage_map' = << >>
    /\ all_covered' = {}
    /\ ci' = 0
    /\ pc' = "report"
    /\ UNCHANGED <<num_locations, population_list, X, G, uncovered, centers,
                   uncovered_final, total_population, covered_population,
                   coverage_percent, outcome>>

(* lines 121-124: one round of "for c in centers" *)
ReportCenter ==
    /\ pc = "report"
    /\ ci < Len(centers)
    /\ LET c == centers[ci + 1]
           covered_by_c == nodes_covered_by_c(G, c, X)
       IN /\ center_coverage_map' =
                 [k \in DOMAIN center_coverage_map \cup {c} |->
                     IF k = c THEN sorted(covered_by_c)
                     ELSE center_coverage_map[k]]
          /\ all_covered' = all_covered \cup covered_by_c
    /\ ci' = ci + 1
    /\ UNCHANGED <<num_locations, population_list, X, G, pc, uncovered,
                   centers, uncovered_final, total_population,
                   covered_population, coverage_percent, outcome>>

(* line 126 *)
ReportDone ==
    /\ pc = "report"
    /\ ci = Len(centers)
    /\ uncovered_final' = NodeSet(G) \ all_covered
    /\ pc' = "stats"
    /\ UNCHANGED <<num_locations, population_list, X, G, uncovered, centers,
                   ci, center_coverage_map, all_covered, total_population,
                   covered_population, coverage_percent, outcome>>

(* lines 129-131, then either the summary (136-152) or the handler of 253 *)
ComputeStats ==
    /\ pc = "stats"
    /\ total_population' = SumSeq(population_list)
    /\ covered_population' =
           CoveredPopulation(G, all_covered)
    /\ IF total_population' = 0
       THEN /\ coverage_percent' = coverage_percent   \* ZeroDivisionError
            /\ outcome' = "invalid_input_error"
       ELSE /\ coverage_percent' = Percent(covered_population', total_population')
            /\ outcome' = "summary"
    /\ pc' = "done"
    /\ UNCHANGED <<num_locations, population_list, X, G, uncovered, centers,
                   ci, center_coverage_map, all_covered, uncovered_final>>

Next ==
    \/ GreedyEnter
    \/ LoopIteration
    \/ LoopExit
    \/ ReportCenter
    \/ ReportDone
    \/ ComputeStats

NextApp ==
    \/ ButtonClick
    \/ Next

Spec == Init /\ [][Next]_vars

SpecPath == InitPath /\ [][Next]_vars

SpecApp == InitApp /\ [][NextApp]_vars

----------------------------------------------------------------------------
(* Notions the properties are stated with *)

(* v is reached from u over at most k edges *)
RECURSIVE HopsAtMost(_, _, _, _)
HopsAtMost(g, u, v, k) ==
    /\ k >= 0
    /\ \/ u = v
       \/ \E w \in Neighbors(g, u) : HopsAtMost(g, w, v, k - 1)

Reach(g, c, x) == {u \in NodeSet(g) : HopsAtMost(g, c, u, x)}

Gain(v, unc) == Cardinality(covered_nodes(G, v, X) \cap unc)

Returned == pc \in {"report", "stats", "done"}

Reported == pc \in {"stats", "done"}

Completed == pc = "done" /\ outcome # "count_error"

(* a step that is one round of the while loop *)
Round == pc = "while" /\ pc' = "while" /\ Len(centers') = Len(centers) + 1

Selected == centers'[Len(centers')]

CeilDiv(a, b) == (a + b - 1) \div b

IsReferenceChain(g) ==
    /\ g.nodes = [i \in 1..Len(g.nodes) |-> i]
    /\ g.edges = {{i, i + 1} : i \in 1..(Len(g.nodes) - 1)}

(* no larger count of centres at radius x than at any smaller radius *)
MonotoneUpTo(g, x) ==
    \A x1 \in 0..x :
        Len(greedy_center_placement(g, x)) <= Len(greedy_center_placement(g, x1))

----------------------------------------------------------------------------
(* The stepwise loop and the whole call agree *)

LoopAgreesWithCall ==
    (X >= 0 /\ Returned) => centers = greedy_center_placement(G, X)

----------------------------------------------------------------------------
(* C1: for every graph and every radius X >= 0, once the placement has     *)
(* returned every node is within X hops of some chosen centre, and the     *)
(* reported uncovered set is empty.                                        *)
C1_FullCoverage ==
    X >= 0 =>
        /\ Returned =>
              \A n \in NodeSet(G) :
                  \E i \in 1..Len(centers) : HopsAtMost(G, centers[i], n, X)
        /\ Reported => uncovered_final = {}

(* a finished report on a graph with an isolated node and an edge *)
C1_Witness ==
    /\ X >= 0
    /\ pc = "done"
    /\ G.edges # {}
    /\ \E n \in NodeSet(G) : Neighbors(G, n) = {}
    /\ uncovered_final = {}

(* C2: for X >= 0 every round of the while loop removes at least one node  *)
(* from uncovered, so the rounds made and the nodes still uncovered never  *)
(* sum to more than N: the loop is over after at most N rounds and centers *)
(* has at most N entries.                                                  *)
C2_Termination ==
    /\ [](X >= 0 =>
            /\ Len(centers) + Cardinality(uncovered) <= num_locations
            /\ Len(centers) <= num_locations
            /\ (pc = "while" /\ Len(centers) = num_locations) => uncovered = {})
    /\ [][(X >= 0 /\ Round) =>
            Cardinality(uncovered') < Cardinality(uncovered)]_vars

(* a run that needed all N rounds *)
C2_Witness ==
    /\ X >= 0
    /\ pc = "done"
    /\ num_locations >= 3
    /\ Len(centers) = num_locations

(* C3: in every round (X >= 0) the appended node has the maximum gain over *)
(* all nodes of the graph, covered or not, and every node before it in the *)
(* node order has a strictly smaller gain.                                 *)
C3_GreedyTieBreak ==
    [][(X >= 0 /\ Round) =>
          \E i \in 1..Len(G.nodes) :
              /\ G.nodes[i] = Selected
              /\ \A j \in 1..Len(G.nodes) :
                     Gain(G.nodes[j], uncovered) <= Gain(Selected, uncovered)
              /\ \A j \in 1..(i - 1) :
                     Gain(G.nodes[j], uncovered) < Gain(Selected, uncovered)]_vars

(* the first centre was chosen among several nodes of the same gain, and a *)
(* later centre was chosen although it was already covered                 *)
C3_Witness ==
    /\ X >= 0
    /\ Len(centers) >= 2
    /\ \E u \in NodeSet(G) :
           /\ u > centers[1]
           /\ Gain(u, NodeSet(G)) = Gain(centers[1], NodeSet(G))
    /\ centers[2] \in covered_nodes(G, centers[1], X)

C5_ZeroPopulationIsSuccess ==
    (Completed /\ SumSeq(population_list) = 0) =>
        /\ outcome = "summary"
        /\ coverage_percent # NoPercent
        /\ coverage_percent[1] = 0

(* C6: a run with X < 0 is rejected before any gain is computed or any     *)
(* centre is appended: centers stays empty and the only outcome is the     *)
(* rejection.                                                              *)
C6_NegativeRadiusRejected ==
    X < 0 =>
        /\ centers = << >>
        /\ outcome \in {"pending", "InvalidRadiusError"}

(* C7: for every completed run covered_population plus the population of   *)
(* the final uncovered set equals total_population.                        *)
C7_PopulationConservation ==
    Completed =>
        covered_population + SumPopulation(G, uncovered_final) = total_population

(* a completed run with mixed populations and two overlapping centres *)
C7_Witness ==
    /\ Completed
    /\ total_population > 0
    /\ \E n \in NodeSet(G) : G.population[n] = 0
    /\ \E i, j \in 1..Len(centers) :
           /\ i < j
           /\ \E n \in Range(center_coverage_map[centers[i]])
                         \cap Range(center_coverage_map[centers[j]]) :
                  G.population[n] > 0

(* C8: the set reported for a centre c is exactly the set of nodes at hop  *)
(* distance <= X from c in the whole graph, as an ascending list, and it   *)
(* contains c.                                                             *)
C8_ReportFullReach ==
    (X >= 0 /\ Reported) =>
        \A i \in 1..Len(centers) :
            LET c == centers[i]
            IN /\ c \in DOMAIN center_coverage_map
               /\ Range(center_coverage_map[c]) = Reach(G, c, X)
               /\ center_coverage_map[c] = sorted(Reach(G, c, X))
               /\ c \in Range(center_coverage_map[c])

(* two centres whose reported sets overlap *)
C8_Witness ==
    /\ X >= 1
    /\ pc = "done"
    /\ \E i, j \in 1..Len(centers) :
           /\ i < j
           /\ Range(center_coverage_map[centers[i]])
                 \cap Range(center_coverage_map[centers[j]]) # {}

(* C9: for X >= 0 centers holds no None and no duplicate, a chosen centre  *)
(* has gain 0 from then on, and the node selected in a round has gain >= 1.*)
C9_NoCenterTwice ==
    /\ [](X >= 0 =>
            /\ \A i \in 1..Len(centers) :
                   /\ centers[i] # None
                   /\ Gain(centers[i], uncovered) = 0
            /\ \A i, j \in 1..Len(centers) :
                   i # j => centers[i] # centers[j])
    /\ [][(X >= 0 /\ Round) => Gain(Selected, uncovered) >= 1]_vars

(* a later round in which the earlier centre is scanned again *)
C9_Witness ==
    /\ X >= 0
    /\ pc = "while"
    /\ Len(centers) >= 1
    /\ uncovered # {}
    /\ centers[1] \in NodeSet(G)
    /\ Gain(centers[1], uncovered) = 0

(* C10: on the reference chain of N nodes with X >= 1 the placement        *)
(* returns exactly ceil(N / (2X+1)) centres, and the coverage is 100       *)
(* percent when the total population is positive.                          *)
C10_ChainResult ==
    (Completed /\ X >= 1) =>
        /\ Len(centers) = CeilDiv(num_locations, 2 * X + 1)
        /\ total_population > 0 =>
               /\ outcome = "summary"
               /\ coverage_percent[1] = 100 * coverage_percent[2]

(* the 5-node chain with radius 1 *)
C10_Witness ==
    /\ Completed
    /\ num_locations = 5
    /\ X = 1
    /\ Len(centers) = 2
    /\ outcome = "summary"
    /\ coverage_percent[1] = 100 * coverage_percent[2]

====
